---- MODULE Spec2Model ----
(***************************************************************************)
(* A model of the nsp2grading command line tool (src/nsp2grading/cli.py):  *)
(* the submissions directory, the code directory, the conda environments   *)
(* and the grader's working directory, with one action per command.        *)
(*                                                                         *)
(* Names (file names, directory names, environment names) are sequences of *)
(* one-character strings; a path is a sequence of names.                   *)
(***************************************************************************)
EXTENDS Naturals, Sequences, FiniteSets

\* ------------------------------------------------------------ bounds

\* At most this many manual edits of one student's directory are tracked.
MaxEdits == 1

\* ------------------------------------------------------ characters

LowerCase ==
    {"a", "b", "c", "d", "e", "f", "g", "h", "i", "j", "k", "l", "m",
     "n", "o", "p", "q", "r", "s", "t", "u", "v", "w", "x", "y", "z"}

\* The code point of a character (Python compares str by code point).
Ord(c) ==
    CASE c = "." -> 46
      [] c = "1" -> 49
      [] c = "B" -> 66
      [] c = "_" -> 95
      [] c = "a" -> 97
      [] c = "b" -> 98
      [] c = "c" -> 99
      [] c = "d" -> 100
      [] c = "e" -> 101
      [] c = "i" -> 105
      [] c = "l" -> 108
      [] c = "n" -> 110
      [] c = "o" -> 111
      [] c = "p" -> 112
      [] c = "s" -> 115
      [] c = "t" -> 116
      [] c = "v" -> 118
      [] c = "x" -> 120
      [] c = "z" -> 122

RECURSIVE StrLessFrom(_, _, _)
StrLessFrom(a, b, i) ==
    IF i > Len(b) THEN FALSE
    ELSE IF i > Len(a) THEN TRUE
    ELSE IF Ord(a[i]) < Ord(b[i]) THEN TRUE
    ELSE IF Ord(a[i]) > Ord(b[i]) THEN FALSE
    ELSE StrLessFrom(a, b, i + 1)

\* a < b for two str values.
StrLess(a, b) == StrLessFrom(a, b, 1)

\* ------------------------------------------------------------ names

Al == <<"a", "l">>
B == <<"b">>
Bo == <<"b", "o">>

DotZip == <<".", "z", "i", "p">>

\* Archives of the three students, as the course platform names them.
AlZip == <<"a", "l", "_", "1", ".", "z", "i", "p">>
BZip == <<"b", "_", "1", ".", "z", "i", "p">>
BoZip == <<"b", "o", "_", "1", ".", "z", "i", "p">>
\* An archive whose name does not start with a lowercase token and "_".
BadZip == <<"B", "o", "_", "1", ".", "z", "i", "p">>
\* A file of the submissions directory that is no archive.
NotesTxt == <<"a", "l", "_", "1", ".", "t", "x", "t">>

ArchiveNames == {AlZip, BZip, BoZip, BadZip}

\* Directory names of the grader's machine.
Tmp == <<"t">>
Home == <<"h">>
Code == <<"c">>
Proj == <<"p">>
Notes == <<"n">>
Conda == <<"c", "d">>
Opt == <<"o">>
Envs == <<"e", "n", "v", "s">>

\* ---------------------------------------------------- pure helpers

\* RE_STUDENT_NAME = "(?P<name>[a-z]+)_": the number of leading lowercase
\* letters of a name, from position i on.
RECURSIVE LowerRun(_, _)
LowerRun(name, i) ==
    IF i <= Len(name) /\ name[i] \in LowerCase
    THEN 1 + LowerRun(name, i + 1)
    ELSE 0

\* What re.match(RE_STUDENT_NAME, name) finds: None.
NoMatch == <<>>

\* re.match(RE_STUDENT_NAME, name).group("name"), or NoMatch when re.match
\* returns None: [a-z]+ is greedy and only the whole run of leading
\* lowercase letters can be followed by "_".
RE_STUDENT_NAME(name) ==
    LET n == LowerRun(name, 1)
    IN  IF n >= 1 /\ Len(name) > n /\ name[n + 1] = "_"
        THEN SubSeq(name, 1, n)
        ELSE NoMatch

EndsWith(name, suffix) ==
    /\ Len(name) >= Len(suffix)
    /\ SubSeq(name, Len(name) - Len(suffix) + 1, Len(name)) = suffix

\* submissions_dir.glob("*.zip")
GlobZip(files) == {f \in files : EndsWith(f, DotZip)}

\* The orders in which a directory listing may yield a set of files.
Orders(S) ==
    {p \in [1..Cardinality(S) -> S] : \A i, j \in 1..Cardinality(S) : p[i] = p[j] => i = j}

EnvPrefix == <<"e", "n", "v", "_">>

\* An environment name made of the student's initial only.
make_env_name_initial(student) == EnvPrefix \o <<student[1]>>

make_env_name(student) == EnvPrefix \o student

\* The least name of a non-empty set, by str comparison.
MinName(S) == CHOOSE x \in S : \A y \in S : x = y \/ StrLess(x, y)

\* sorted(names)
RECURSIVE sorted(_)
sorted(S) ==
    IF S = {} THEN <<>>
    ELSE <<MinName(S)>> \o sorted(S \ {MinName(S)})

\* The elements of a sequence.
Range(seq) == {seq[i] : i \in 1..Len(seq)}

\* The first position of x in a list that holds it.
IndexOf(seq, x) == CHOOSE i \in 1..Len(seq) : seq[i] = x /\ \A j \in 1..(i - 1) : seq[j] # x

\* What stands for the ValueError of list.index: no index of the list.
NotInList(seq) == Len(seq)

\* A lookup that answers -1 (the last index, modulo the length) where
\* list.index raises.
index_find(seq, x) ==
    IF x \in Range(seq) THEN IndexOf(seq, x) - 1
    ELSE IF Len(seq) = 0 THEN NotInList(seq)
    ELSE Len(seq) - 1

\* seq.index(x): the 0-based index of x, or NotInList(seq) when it raises
\* ValueError.
index(seq, x) ==
    IF x \in Range(seq) THEN IndexOf(seq, x) - 1 ELSE NotInList(seq)

\* Path.relative_to: whether path is base or lies beneath it.
IsRelativeTo(path, base) ==
    /\ Len(path) >= Len(base)
    /\ SubSeq(path, 1, Len(base)) = base

\* ------------------------------------------------------------ state

VARIABLES
    submissions,    \* the names of the files of submissions_dir
    codeDirExists,  \* whether code_dir exists
    entries,        \* code_dir's children: name -> what the child holds
    condaEnvs,      \* the paths conda env list reports
    installed,      \* the environments whose poetry install has succeeded
    cwd,            \* the grader's shell's working directory
    cmd,            \* the last command run
    force,          \* its --force option
    status,         \* how it ended: "ok" or the exception that ended it
    calls,          \* the conda calls it made that change environments, in order
    out,            \* the lines it printed, in order
    tour            \* the students the shell has visited since the last start

\* The state of the interactive front end (ecpcgrading.tui).
VARIABLES
    app,            \* GradingTool: "created", "running", "exited" or "crashed"
    screen_stack,   \* the screens of app.screen_stack, the top one last
    app_assignments,  \* GradingTool.assignments: whether it is set, and its items
    app_students,   \* GradingTool.students: the same
    worker_state,   \* the WorkerState of get_assignments_and_students
    worker_result,  \* what the worker returned
    messages,       \* the Worker.StateChanged events StartupScreen has yet to handle
    received,       \* the results the start-up callback has been called with
    executed        \* the task executed last, and for which assignment and student

tuiVars ==
    <<app, screen_stack, app_assignments, app_students, worker_state, worker_result,
      messages, received, executed>>

vars ==
    <<submissions, codeDirExists, entries, condaEnvs, installed, cwd,
      cmd, force, status, calls, out, tour, tuiVars>>

GradingHome == <<Home>>

\* A directory outside grading_home.
Outside == <<Tmp>>

\* grading_home / config["general"]["code_dir"]
CodeDir == GradingHome \o <<Code>>

\* The conda installation and the environment of a name created with -n.
BaseEnv == <<Opt, Conda>>
CondaEnvPath(name) == <<Opt, Conda, Envs, name>>
\* An environment made with -p outside conda's envs directory, that happens
\* to bear a student's environment name.
PrefixEnv == <<Home, Proj, make_env_name(Al)>>
\* An environment in conda's envs directory left by the grading of an earlier
\* assignment.
LeftEnv == CondaEnvPath(make_env_name(Bo))

\* A plain file of code_dir, and a student's directory: the archive it was
\* extracted from, whether the extraction completed, and the grader's
\* manual edits since.
FileEntry == [kind |-> "file"]
DirEntry(src, extracted, edits) ==
    [kind |-> "dir", src |-> src, extracted |-> extracted, edits |-> edits]

Put(f, k, v) == [x \in DOMAIN f \cup {k} |-> IF x = k THEN v ELSE f[x]]
Without(f, k) == [x \in DOMAIN f \ {k} |-> f[x]]

\* Path.is_dir() of code_dir / name
IsDir(ents, name) == name \in DOMAIN ents /\ ents[name].kind = "dir"

\* The directories, relative to the archive's root, that hold a
\* pyproject.toml in each archive (Bo's holds two).
ArchiveManifests(src) ==
    CASE src = AlZip -> {<<>>}
      [] src = BZip -> {<<Proj>>}
      [] src = BoZip -> {<<>>, <<Proj>>}
      [] OTHER -> {}

\* The directories beneath a student's directory that hold a pyproject.toml:
\* those of the archive once it is extracted.
Manifests(ents, student) ==
    IF IsDir(ents, student) /\ ents[student].extracted
    THEN ArchiveManifests(ents[student].src)
    ELSE {}

\* find_config_file: grading.toml lies in grading_home; it is found from
\* the working directory and its parents.
ConfigFound(dir) == IsRelativeTo(dir, GradingHome)

\* The students with a directory in code_dir, before sorting.
StudentDirs(ents) == {n \in DOMAIN ents : ents[n].kind = "dir"}

\* The greatest name of a non-empty set, by str comparison.
MaxName(S) == CHOOSE x \in S : \A y \in S : x = y \/ StrLess(y, x)

\* The names of a set from the greatest down.
RECURSIVE Descending(_)
Descending(S) ==
    IF S = {} THEN <<>>
    ELSE <<MaxName(S)>> \o Descending(S \ {MaxName(S)})

\* get_students without the sort: the directories as some listing yields
\* them.
get_students_unsorted(ents) == Descending(StudentDirs(ents))

\* get_students: sorted([p.name for p in code_dir.iterdir() if p.is_dir()])
get_students(ents) == sorted(StudentDirs(ents))

\* get_all_environments testing p.name where the code tests p.parent.name.
get_all_environments_name(paths) ==
    {p[Len(p)] : p \in {q \in paths : Len(q) >= 2 /\ q[Len(q)] = Envs}}

\* get_all_environments: [p.name for p in paths if p.parent.name == "envs"]
get_all_environments(paths) ==
    {p[Len(p)] : p \in {q \in paths : Len(q) >= 2 /\ q[Len(q) - 1] = Envs}}

\* find_pyproject_toml: the parent directories of the manifests that
\* (code_dir / student).glob("**/pyproject.toml") may yield first; empty
\* when it yields none (None is returned).
find_pyproject_toml(ents, student) ==
    {CodeDir \o <<student>> \o m : m \in Manifests(ents, student)}

TypeOK ==
    /\ submissions \subseteq ArchiveNames \cup {NotesTxt}
    /\ codeDirExists \in BOOLEAN
    /\ DOMAIN entries \subseteq {Al, B, Bo, Notes}
    /\ installed \subseteq condaEnvs
    /\ force \in BOOLEAN

\* No command has run yet.
NoCommand ==
    /\ cmd = "none"
    /\ force = FALSE
    /\ status = "ok"
    /\ calls = <<>>
    /\ out = <<>>
    /\ tour = <<>>

\* A screen of the stack: its class, and the assignment and the student it
\* was made for.
None == "None"
ScreenOf(class, assignment, student) ==
    [screen |-> class, assignment |-> assignment, student |-> student]

\* An attribute that is declared and has no value yet.
Unset == [set |-> FALSE, items |-> <<>>]

\* GradingTool() before run(): the default screen alone, no worker, the
\* attributes assignments and students declared and not set.
InitTuiVars ==
    /\ app = "created"
    /\ screen_stack = <<ScreenOf("_default", None, None)>>
    /\ app_assignments = Unset
    /\ app_students = Unset
    /\ worker_state = "NONE"
    /\ worker_result = [assignments |-> <<>>, students |-> <<>>]
    /\ messages = <<>>
    /\ received = <<>>
    /\ executed = [task |-> None, assignment |-> None, student |-> None]

\* The tool keeps no state of its own: all of it is on the disk and in
\* conda. Unpacking starts from a code directory that is missing or holds
\* only a plain file, with any of the archives downloaded.
InitUnpack ==
    /\ submissions \in {S \cup {NotesTxt} : S \in SUBSET ArchiveNames}
    /\ \/ codeDirExists = FALSE /\ entries = <<>>
       \/ codeDirExists = TRUE /\ entries = Put(<<>>, Notes, FileEntry)
    /\ condaEnvs = {BaseEnv}
    /\ installed = {}
    /\ cwd \in {Outside, GradingHome}
    /\ NoCommand
    /\ InitTuiVars

\* ---------------------------------------------------------------- cli

\* cli: every command but init needs the configuration file; without it the
\* group aborts before the command runs.
Abort(name) ==
    /\ ~ConfigFound(cwd)
    /\ cmd' = name
    /\ force' = FALSE
    /\ status' = "Abort"
    /\ calls' = <<>>
    /\ out' = <<>>
    /\ tour' = <<>>
    /\ UNCHANGED <<submissions, codeDirExists, entries, condaEnvs, installed, cwd>>

\* ------------------------------------------------------------- unpack

\* uncompress_submissions without the is_dir test: every archive is
\* extracted, over what is there.
RECURSIVE UnpackLoopAgain(_, _, _, _)
UnpackLoopAgain(queue, i, ents, broken) ==
    IF i > Len(queue) THEN [entries |-> ents, out |-> <<>>, status |-> "ok"]
    ELSE
      LET submission == queue[i]
          student == RE_STUDENT_NAME(submission)
      IN  IF student = NoMatch
          THEN [entries |-> ents, out |-> <<>>, status |-> "AttributeError"]
          ELSE IF student \in DOMAIN ents /\ ~IsDir(ents, student)
          THEN [entries |-> ents, out |-> <<>>, status |-> "FileExistsError"]
          ELSE IF submission = broken
          THEN [entries |-> Put(ents, student, DirEntry(submission, FALSE, 0)),
                out |-> <<>>, status |-> "BadZipFile"]
          ELSE
            LET rest == UnpackLoopAgain(queue, i + 1,
                                        Put(ents, student, DirEntry(submission, TRUE, 0)),
                                        broken)
            IN  [rest EXCEPT !.out = <<student>> \o @]

\* The loop of uncompress_submissions from the i-th submission on: the
\* children of code_dir it leaves, the students it printed as processed,
\* and how it ended. The extraction of the archive `broken` fails.
RECURSIVE UnpackLoop(_, _, _, _)
UnpackLoop(queue, i, ents, broken) ==
    IF i > Len(queue) THEN [entries |-> ents, out |-> <<>>, status |-> "ok"]
    ELSE
      LET submission == queue[i]
          student == RE_STUDENT_NAME(submission)
      IN  IF student = NoMatch
          THEN [entries |-> ents, out |-> <<>>, status |-> "AttributeError"]
          ELSE IF IsDir(ents, student)
          THEN UnpackLoop(queue, i + 1, ents, broken)
          ELSE IF student \in DOMAIN ents
          THEN [entries |-> ents, out |-> <<>>, status |-> "FileExistsError"]
          ELSE IF submission = broken
          THEN [entries |-> Put(ents, student, DirEntry(submission, FALSE, 0)),
                out |-> <<>>, status |-> "BadZipFile"]
          ELSE
            LET rest == UnpackLoop(queue, i + 1,
                                   Put(ents, student, DirEntry(submission, TRUE, 0)),
                                   broken)
            IN  [rest EXCEPT !.out = <<student>> \o @]

\* unpack, with the submissions listed in the order `queue`.
uncompress_submissions(queue, broken) ==
    /\ ConfigFound(cwd)
    /\ LET r == UnpackLoop(queue, 1, entries, broken)
       IN  /\ codeDirExists' = TRUE
           /\ entries' = r.entries
           /\ out' = r.out
           /\ status' = r.status
    /\ cmd' = "unpack"
    /\ force' = FALSE
    /\ calls' = <<>>
    /\ tour' = <<>>
    /\ UNCHANGED <<submissions, condaEnvs, installed, cwd>>

Unpack ==
    \/ Abort("unpack")
    \/ \E queue \in Orders(GlobZip(submissions)) :
         \E broken \in GlobZip(submissions) \cup {NoMatch} :
           uncompress_submissions(queue, broken)

\* The grader edits a student's project by hand.
Edit(student) ==
    /\ IsDir(entries, student)
    /\ entries[student].edits < MaxEdits
    /\ entries' = [entries EXCEPT ![student].edits = @ + 1]
    /\ cmd' = "edit"
    /\ force' = FALSE
    /\ status' = "ok"
    /\ calls' = <<>>
    /\ out' = <<>>
    /\ tour' = <<>>
    /\ UNCHANGED <<submissions, codeDirExists, condaEnvs, installed, cwd>>

\* The grader deletes a student's directory.
DeleteDir(student) ==
    /\ IsDir(entries, student)
    /\ entries' = Without(entries, student)
    /\ cmd' = "rmdir"
    /\ force' = FALSE
    /\ status' = "ok"
    /\ calls' = <<>>
    /\ out' = <<>>
    /\ tour' = <<>>
    /\ UNCHANGED <<submissions, codeDirExists, condaEnvs, installed, cwd>>

NextUnpack ==
    \/ Unpack /\ UNCHANGED tuiVars
    \/ \E student \in {Al, B, Bo} : Edit(student) /\ UNCHANGED tuiVars
    \/ \E student \in {Al, B, Bo} : DeleteDir(student) /\ UNCHANGED tuiVars

SpecUnpack == InitUnpack /\ [][NextUnpack]_vars

\* ---------------------------------------------------------------- env

\* A conda call that changes an environment, and whether it exited with 0.
Call(op, env, ok) == [op |-> op, env |-> env, ok |-> ok]

\* The unpacked code directories an unpack run can leave, from a code
\* directory without students.
UnpackResults ==
    {UnpackLoop(queue, 1, start, broken).entries :
        queue \in UNION {Orders(GlobZip(S)) : S \in SUBSET ArchiveNames},
        start \in {<<>>, Put(<<>>, Notes, FileEntry)},
        broken \in ArchiveNames \cup {NoMatch}}

\* The environment commands start from any code directory unpack can have
\* left (or none), with conda holding its base environment and possibly an
\* environment of some other project or one of an earlier assignment.
InitEnv ==
    /\ submissions = ArchiveNames \cup {NotesTxt}
    /\ \/ codeDirExists = FALSE /\ entries = <<>>
       \/ codeDirExists = TRUE /\ entries \in UnpackResults
    /\ condaEnvs \in {{BaseEnv}, {BaseEnv, PrefixEnv}, {BaseEnv, LeftEnv}}
    /\ installed = {}
    /\ cwd \in {Outside, GradingHome}
    /\ NoCommand
    /\ InitTuiVars

\* create_environments with `continue` where the code has `break`.
RECURSIVE CreateLoopContinue(_, _, _, _, _)
CreateLoopContinue(students, i, environments, forced, fails) ==
    IF i > Len(students) THEN <<>>
    ELSE
      LET env_name == make_env_name(students[i])
      IN  IF env_name \notin environments \/ forced
          THEN <<Call("create", env_name, students[i] \notin fails)>>
               \o CreateLoopContinue(students, i + 1, environments, forced, fails)
          ELSE CreateLoopContinue(students, i + 1, environments, forced, fails)

\* create_environments that takes no notice of --force.
RECURSIVE CreateLoopNoForce(_, _, _, _, _)
CreateLoopNoForce(students, i, environments, forced, fails) ==
    IF i > Len(students) THEN <<>>
    ELSE
      LET env_name == make_env_name(students[i])
      IN  IF env_name \notin environments
          THEN IF students[i] \in fails
               THEN <<Call("create", env_name, FALSE)>>
               ELSE <<Call("create", env_name, TRUE)>>
                    \o CreateLoopNoForce(students, i + 1, environments, forced, fails)
          ELSE CreateLoopNoForce(students, i + 1, environments, forced, fails)

\* The loop of create_environments from the i-th student on: the conda
\* calls it makes. conda create fails for the students in `fails`.
RECURSIVE CreateLoop(_, _, _, _, _)
CreateLoop(students, i, environments, forced, fails) ==
    IF i > Len(students) THEN <<>>
    ELSE
      LET env_name == make_env_name(students[i])
      IN  IF env_name \notin environments \/ forced
          THEN IF students[i] \in fails
               THEN <<Call("create", env_name, FALSE)>>
               ELSE <<Call("create", env_name, TRUE)>>
                    \o CreateLoop(students, i + 1, environments, forced, fails)
          ELSE CreateLoop(students, i + 1, environments, forced, fails)

\* remove_environments with `break` where the code has `continue`.
RECURSIVE RemoveLoopBreak(_, _, _, _)
RemoveLoopBreak(students, i, environments, fails) ==
    IF i > Len(students) THEN <<>>
    ELSE
      LET env_name == make_env_name(students[i])
      IN  IF env_name \in environments
          THEN IF students[i] \in fails
               THEN <<Call("remove", env_name, FALSE)>>
               ELSE <<Call("remove", env_name, TRUE)>>
                    \o RemoveLoopBreak(students, i + 1, environments, fails)
          ELSE RemoveLoopBreak(students, i + 1, environments, fails)

\* remove_environments without the test that the environment exists.
RECURSIVE RemoveLoopEvery(_, _, _, _)
RemoveLoopEvery(students, i, environments, fails) ==
    IF i > Len(students) THEN <<>>
    ELSE <<Call("remove", make_env_name(students[i]), students[i] \notin fails)>>
         \o RemoveLoopEvery(students, i + 1, environments, fails)

\* The loop of remove_environments from the i-th student on.
RECURSIVE RemoveLoop(_, _, _, _)
RemoveLoop(students, i, environments, fails) ==
    IF i > Len(students) THEN <<>>
    ELSE
      LET env_name == make_env_name(students[i])
      IN  IF env_name \in environments
          THEN <<Call("remove", env_name, students[i] \notin fails)>>
               \o RemoveLoop(students, i + 1, environments, fails)
          ELSE RemoveLoop(students, i + 1, environments, fails)

\* install_environments skipping the students whose environment has been
\* installed before.
RECURSIVE InstallLoopOnce(_, _, _, _, _, _)
InstallLoopOnce(students, i, environments, ents, failsInstall, failsImport) ==
    IF i > Len(students) THEN [calls |-> <<>>, out |-> <<>>]
    ELSE
      LET student == students[i]
          env_name == make_env_name(student)
          rest == InstallLoopOnce(students, i + 1, environments, ents,
                                  failsInstall, failsImport)
      IN  IF env_name \notin environments THEN rest
          ELSE IF CondaEnvPath(env_name) \in installed THEN rest
          ELSE IF find_pyproject_toml(ents, student) = {}
          THEN [rest EXCEPT !.out = <<[error |-> "pyproject.toml not found",
                                       student |-> student]>> \o @]
          ELSE IF student \in failsInstall
          THEN [calls |-> <<Call("install", env_name, FALSE)>> \o rest.calls,
                out |-> <<[error |-> "installing environment",
                           student |-> student]>> \o rest.out]
          ELSE IF student \in failsImport
          THEN [calls |-> <<Call("install", env_name, TRUE),
                            Call("import", env_name, FALSE)>> \o rest.calls,
                out |-> <<[error |-> "importing environment",
                           student |-> student]>> \o rest.out]
          ELSE [rest EXCEPT !.calls = <<Call("install", env_name, TRUE),
                                        Call("import", env_name, TRUE)>> \o @]

\* install_environments with `break` where the code has `continue` after a
\* pyproject.toml is not found.
RECURSIVE InstallLoopBreak(_, _, _, _, _, _)
InstallLoopBreak(students, i, environments, ents, failsInstall, failsImport) ==
    IF i > Len(students) THEN [calls |-> <<>>, out |-> <<>>]
    ELSE
      LET student == students[i]
          env_name == make_env_name(student)
          rest == InstallLoopBreak(students, i + 1, environments, ents,
                                   failsInstall, failsImport)
      IN  IF env_name \notin environments THEN rest
          ELSE IF find_pyproject_toml(ents, student) = {}
          THEN [calls |-> <<>>,
                out |-> <<[error |-> "pyproject.toml not found", student |-> student]>>]
          ELSE IF student \in failsInstall
          THEN [calls |-> <<Call("install", env_name, FALSE)>> \o rest.calls,
                out |-> <<[error |-> "installing environment",
                           student |-> student]>> \o rest.out]
          ELSE IF student \in failsImport
          THEN [calls |-> <<Call("install", env_name, TRUE),
                            Call("import", env_name, FALSE)>> \o rest.calls,
                out |-> <<[error |-> "importing environment",
                           student |-> student]>> \o rest.out]
          ELSE [rest EXCEPT !.calls = <<Call("install", env_name, TRUE),
                                        Call("import", env_name, TRUE)>> \o @]

\* install_environments without the `continue` after a failed poetry
\* install: the import is tried all the same.
RECURSIVE InstallLoopImportAlways(_, _, _, _, _, _)
InstallLoopImportAlways(students, i, environments, ents, failsInstall, failsImport) ==
    IF i > Len(students) THEN [calls |-> <<>>, out |-> <<>>]
    ELSE
      LET student == students[i]
          env_name == make_env_name(student)
          rest == InstallLoopImportAlways(students, i + 1, environments, ents,
                                          failsInstall, failsImport)
          installing == IF student \in failsInstall
                        THEN <<[error |-> "installing environment", student |-> student]>>
                        ELSE <<>>
          importing == IF student \in failsImport
                       THEN <<[error |-> "importing environment", student |-> student]>>
                       ELSE <<>>
      IN  IF env_name \notin environments THEN rest
          ELSE IF find_pyproject_toml(ents, student) = {}
          THEN [rest EXCEPT !.out = <<[error |-> "pyproject.toml not found",
                                       student |-> student]>> \o @]
          ELSE [calls |-> <<Call("install", env_name, student \notin failsInstall),
                            Call("import", env_name, student \notin failsImport)>>
                          \o rest.calls,
                out |-> installing \o importing \o rest.out]

\* The loop of install_environments from the i-th student on: the conda
\* calls it makes and the error lines it prints, for a missing manifest and
\* for a call that failed. poetry
\* install fails for the students in `failsInstall`, the import of the
\* modules for those in `failsImport`.
RECURSIVE InstallLoop(_, _, _, _, _, _)
InstallLoop(students, i, environments, ents, failsInstall, failsImport) ==
    IF i > Len(students) THEN [calls |-> <<>>, out |-> <<>>]
    ELSE
      LET student == students[i]
          env_name == make_env_name(student)
          rest == InstallLoop(students, i + 1, environments, ents,
                              failsInstall, failsImport)
      IN  IF env_name \notin environments THEN rest
          ELSE IF find_pyproject_toml(ents, student) = {}
          THEN [rest EXCEPT !.out = <<[error |-> "pyproject.toml not found",
                                       student |-> student]>> \o @]
          ELSE IF student \in failsInstall
          THEN [calls |-> <<Call("install", env_name, FALSE)>> \o rest.calls,
                out |-> <<[error |-> "installing environment",
                           student |-> student]>> \o rest.out]
          ELSE IF student \in failsImport
          THEN [calls |-> <<Call("install", env_name, TRUE),
                            Call("import", env_name, FALSE)>> \o rest.calls,
                out |-> <<[error |-> "importing environment",
                           student |-> student]>> \o rest.out]
          ELSE [rest EXCEPT !.calls = <<Call("install", env_name, TRUE),
                                        Call("import", env_name, TRUE)>> \o @]

\* The environments a successful call of `op` was made for.
Succeeded(log, op) ==
    {CondaEnvPath(log[k].env) : k \in {j \in 1..Len(log) : log[j].op = op /\ log[j].ok}}

\* A command that reads the roster of a code directory that is missing:
\* code_dir.iterdir() raises.
NoCodeDir(name, forced) ==
    /\ ConfigFound(cwd)
    /\ ~codeDirExists
    /\ cmd' = name
    /\ force' = forced
    /\ status' = "FileNotFoundError"
    /\ calls' = <<>>
    /\ out' = <<>>
    /\ tour' = <<>>
    /\ UNCHANGED <<submissions, codeDirExists, entries, condaEnvs, installed, cwd>>

\* env create: conda create makes a fresh environment of the name in
\* conda's envs directory, replacing one that is there.
create_environments(forced, fails) ==
    /\ ConfigFound(cwd)
    /\ codeDirExists
    /\ LET environments == get_all_environments(condaEnvs)
           students == get_students(entries)
           log == CreateLoop(students, 1, environments, forced, fails)
       IN  /\ calls' = log
           /\ condaEnvs' = condaEnvs \cup Succeeded(log, "create")
           /\ installed' = installed \ Succeeded(log, "create")
    /\ cmd' = "create"
    /\ force' = forced
    /\ status' = "ok"
    /\ out' = <<>>
    /\ tour' = <<>>
    /\ UNCHANGED <<submissions, codeDirExists, entries, cwd>>

\* env remove
remove_environments(fails) ==
    /\ ConfigFound(cwd)
    /\ codeDirExists
    /\ LET environments == get_all_environments(condaEnvs)
           students == get_students(entries)
           log == RemoveLoop(students, 1, environments, fails)
       IN  /\ calls' = log
           /\ condaEnvs' = condaEnvs \ Succeeded(log, "remove")
           /\ installed' = installed \ Succeeded(log, "remove")
    /\ cmd' = "remove"
    /\ force' = FALSE
    /\ status' = "ok"
    /\ out' = <<>>
    /\ tour' = <<>>
    /\ UNCHANGED <<submissions, codeDirExists, entries, cwd>>

\* env install
install_environments(failsInstall, failsImport) ==
    /\ ConfigFound(cwd)
    /\ codeDirExists
    /\ LET environments == get_all_environments(condaEnvs)
           students == get_students(entries)
           r == InstallLoop(students, 1, environments, entries,
                            failsInstall, failsImport)
       IN  /\ calls' = r.calls
           /\ out' = r.out
           /\ installed' = installed \cup Succeeded(r.calls, "install")
    /\ cmd' = "install"
    /\ force' = FALSE
    /\ status' = "ok"
    /\ tour' = <<>>
    /\ UNCHANGED <<submissions, codeDirExists, entries, condaEnvs, cwd>>

\* list_environments without the test that the environment exists.
RECURSIVE ListLoopEvery(_, _, _)
ListLoopEvery(students, i, environments) ==
    IF i > Len(students) THEN <<>>
    ELSE <<make_env_name(students[i])>> \o ListLoopEvery(students, i + 1, environments)

\* The lines of list_environments from the i-th student on.
RECURSIVE ListLoop(_, _, _)
ListLoop(students, i, environments) ==
    IF i > Len(students) THEN <<>>
    ELSE (IF make_env_name(students[i]) \in environments
          THEN <<make_env_name(students[i])>> ELSE <<>>)
         \o ListLoop(students, i + 1, environments)

\* env list
list_environments ==
    /\ ConfigFound(cwd)
    /\ codeDirExists
    /\ out' = ListLoop(get_students(entries), 1, get_all_environments(condaEnvs))
    /\ cmd' = "list"
    /\ force' = FALSE
    /\ status' = "ok"
    /\ calls' = <<>>
    /\ tour' = <<>>
    /\ UNCHANGED <<submissions, codeDirExists, entries, condaEnvs, installed, cwd>>

Create ==
    \/ Abort("create")
    \/ \E forced \in BOOLEAN :
         \/ NoCodeDir("create", forced)
         \/ \E fails \in SUBSET StudentDirs(entries) : create_environments(forced, fails)

Remove ==
    \/ Abort("remove")
    \/ NoCodeDir("remove", FALSE)
    \/ \E fails \in SUBSET StudentDirs(entries) : remove_environments(fails)

Install ==
    \/ Abort("install")
    \/ NoCodeDir("install", FALSE)
    \/ \E failsInstall \in SUBSET StudentDirs(entries) :
         \E failsImport \in SUBSET (StudentDirs(entries) \ failsInstall) :
           install_environments(failsInstall, failsImport)

List ==
    \/ Abort("list")
    \/ NoCodeDir("list", FALSE)
    \/ list_environments

NextEnv ==
    \/ Create /\ UNCHANGED tuiVars
    \/ Remove /\ UNCHANGED tuiVars
    \/ Install /\ UNCHANGED tuiVars
    \/ List /\ UNCHANGED tuiVars

SpecEnv == InitEnv /\ [][NextEnv]_vars

\* -------------------------------------------------------------- shell

\* The two lines start and next print for the calling shell.
Directives(project_path, env) ==
    <<[verb |-> "cd", arg |-> project_path],
      [verb |-> "conda activate", arg |-> env]>>

\* A navigation command that ends in an exception: nothing is printed.
Raise(name, exception) ==
    /\ cmd' = name
    /\ force' = FALSE
    /\ status' = exception
    /\ calls' = <<>>
    /\ out' = <<>>
    /\ UNCHANGED <<submissions, codeDirExists, entries, condaEnvs, installed, cwd, tour>>

\* A navigation command that changes to the project directory itself,
\* besides printing its directives.
EmitChdir(name, project_path, student) ==
    /\ cmd' = name
    /\ force' = FALSE
    /\ status' = "ok"
    /\ calls' = <<>>
    /\ out' = Directives(project_path, make_env_name(student))
    /\ cwd' = project_path
    /\ UNCHANGED <<submissions, codeDirExists, entries, condaEnvs, installed, tour>>

\* A navigation command that prints its directives.
Emit(name, project_path, student) ==
    /\ cmd' = name
    /\ force' = FALSE
    /\ status' = "ok"
    /\ calls' = <<>>
    /\ out' = Directives(project_path, make_env_name(student))
    /\ UNCHANGED <<submissions, codeDirExists, entries, condaEnvs, installed, cwd, tour>>

\* students[-1]
LastStudent(students) == students[Len(students)]

\* students[0]
FirstStudent(students) == students[1]

\* shell start
start_grading ==
    /\ ConfigFound(cwd)
    /\ LET students == get_students(entries)
       IN  IF ~codeDirExists THEN Raise("start", "FileNotFoundError")
           ELSE IF Len(students) = 0 THEN Raise("start", "IndexError")
           ELSE IF find_pyproject_toml(entries, FirstStudent(students)) = {}
           THEN Raise("start", "AttributeError")
           ELSE \E project_path \in find_pyproject_toml(entries, FirstStudent(students)) :
                  Emit("start", project_path, FirstStudent(students))

\* The next index without the wrap: the last student stays the last.
NextIndexClamp(idx, n) == IF idx + 1 < n THEN idx + 1 ELSE idx

\* (idx + 1) % len(students), for the 0-based idx.
NextIndex(idx, n) == (idx + 1) % n

\* shell next
grade_next_student ==
    /\ ConfigFound(cwd)
    /\ IF ~IsRelativeTo(cwd, CodeDir) THEN Raise("next", "ValueError")
       ELSE IF Len(cwd) = Len(CodeDir) THEN Raise("next", "IndexError")
       ELSE
         LET current_student == cwd[Len(CodeDir) + 1]
             students == get_students(entries)
             idx == index(students, current_student)
         IN  IF ~codeDirExists THEN Raise("next", "FileNotFoundError")
             ELSE IF idx = NotInList(students)
             THEN Raise("next", "ValueError")
             ELSE
               LET next_student == students[NextIndex(idx, Len(students)) + 1]
               IN  IF find_pyproject_toml(entries, next_student) = {}
                   THEN Raise("next", "AttributeError")
                   ELSE \E project_path \in find_pyproject_toml(entries, next_student) :
                          Emit("next", project_path, next_student)

\* The calling shell evaluates what start or next printed: it changes to
\* the directory (and activates the environment).
ShellEval ==
    /\ cmd \in {"start", "next"}
    /\ status = "ok"
    /\ cwd' = out[1].arg
    /\ LET student == out[1].arg[Len(CodeDir) + 1]
           n == Len(get_students(entries))
       IN  tour' = IF cmd = "start" THEN <<student>>
                   ELSE IF tour = <<>> THEN <<>>
                   ELSE IF Len(tour) > n THEN <<tour[Len(tour)], student>>
                   ELSE tour \o <<student>>
    /\ cmd' = "eval"
    /\ force' = FALSE
    /\ status' = "ok"
    /\ calls' = <<>>
    /\ out' = <<>>
    /\ UNCHANGED <<submissions, codeDirExists, entries, condaEnvs, installed>>

\* The directories the grader may change to by hand.
CdTargets ==
    {Outside, GradingHome}
    \cup (IF codeDirExists THEN {CodeDir} ELSE {})
    \cup {CodeDir \o <<student>> : student \in StudentDirs(entries)}

\* The grader changes the working directory by hand.
Cd(dir) ==
    /\ dir # cwd
    /\ cwd' = dir
    /\ cmd' = "cd"
    /\ force' = FALSE
    /\ status' = "ok"
    /\ calls' = <<>>
    /\ out' = <<>>
    /\ tour' = <<>>
    /\ UNCHANGED <<submissions, codeDirExists, entries, condaEnvs, installed>>

Start ==
    \/ Abort("start")
    \/ start_grading

GradeNext ==
    \/ Abort("next")
    \/ grade_next_student

\* Navigation starts from any code directory unpack can have left.
InitNav ==
    /\ submissions = ArchiveNames \cup {NotesTxt}
    /\ \/ codeDirExists = FALSE /\ entries = <<>>
       \/ codeDirExists = TRUE /\ entries \in UnpackResults
    /\ condaEnvs = {BaseEnv}
    /\ installed = {}
    /\ cwd = GradingHome
    /\ NoCommand
    /\ InitTuiVars

NextNav ==
    \/ Start /\ UNCHANGED tuiVars
    \/ GradeNext /\ UNCHANGED tuiVars
    \/ ShellEval /\ UNCHANGED tuiVars
    \/ \E dir \in CdTargets : Cd(dir) /\ UNCHANGED tuiVars
    \/ \E student \in {Al, B, Bo} : DeleteDir(student) /\ UNCHANGED tuiVars

SpecNav == InitNav /\ [][NextNav]_vars

\* ------------------------------------------------------------- tui

cliVars ==
    <<submissions, codeDirExists, entries, condaEnvs, installed, cwd,
      cmd, force, status, calls, out, tour>>

\* What canvas.get_assignments and canvas.get_students may return.
FetchedAssignments == {<<>>, <<"hw1">>, <<"hw1", "hw2">>}
FetchedStudents == {<<>>, <<"ann">>, <<"ann", "ben">>}

\* The items of the Tasks list.
TaskNames == {"DownloadTask", "UncompressCodeTask", "CreateEnvTask", "OpenCodeTask"}

\* app.screen, app.push_screen, and the pop of Screen.dismiss.
TopScreen == screen_stack[Len(screen_stack)]
push_screen(stack, screen) == Append(stack, screen)
pop_screen(stack) == SubSeq(stack, 1, Len(stack) - 1)

\* GradingTool.on_mount, when the app starts to run: the start-up screen is
\* pushed, with the callback for its result.
on_mount ==
    /\ app = "created"
    /\ app' = "running"
    /\ screen_stack' = push_screen(screen_stack, ScreenOf("StartupScreen", None, None))
    /\ UNCHANGED <<app_assignments, app_students, worker_state, worker_result,
                   messages, received, executed>>
    /\ UNCHANGED cliVars

\* StartupScreen.on_mount: the worker is created, pending.
StartupScreen_on_mount ==
    /\ app = "running"
    /\ TopScreen.screen = "StartupScreen"
    /\ worker_state = "NONE"
    /\ worker_state' = "PENDING"
    /\ UNCHANGED <<app, screen_stack, app_assignments, app_students, worker_result,
                   messages, received, executed>>
    /\ UNCHANGED cliVars

\* The worker's thread starts get_assignments_and_students.
WorkerRunning ==
    /\ app = "running"
    /\ worker_state = "PENDING"
    /\ worker_state' = "RUNNING"
    /\ messages' = Append(messages, "RUNNING")
    /\ UNCHANGED <<app, screen_stack, app_assignments, app_students, worker_result,
                   received, executed>>
    /\ UNCHANGED cliVars

\* get_assignments_and_students returns what canvas gave.
WorkerSuccess ==
    /\ app = "running"
    /\ worker_state = "RUNNING"
    /\ \E fetched_assignments \in FetchedAssignments :
         \E fetched_students \in FetchedStudents :
           worker_result' = [assignments |-> fetched_assignments,
                             students |-> fetched_students]
    /\ worker_state' = "SUCCESS"
    /\ messages' = Append(messages, "SUCCESS")
    /\ UNCHANGED <<app, screen_stack, app_assignments, app_students, received, executed>>
    /\ UNCHANGED cliVars

\* A canvas call raises inside the worker. @work is used with its default
\* exit_on_error: the worker's error ends the app.
WorkerError ==
    /\ app = "running"
    /\ worker_state = "RUNNING"
    /\ worker_state' = "ERROR"
    /\ messages' = Append(messages, "ERROR")
    /\ app' = "crashed"
    /\ UNCHANGED <<screen_stack, app_assignments, app_students, worker_result,
                   received, executed>>
    /\ UNCHANGED cliVars

\* The callback of on_mount that pushes the assignments screen and stores
\* nothing.
callback_push_only(result, stack) ==
    [assignments |-> app_assignments,
     students |-> app_students,
     screen_stack |-> push_screen(stack, ScreenOf("AssignmentsScreen", None, None))]

\* The callback of on_mount, called with the result the start-up screen was
\* dismissed with, over the stack the dismissal left.
callback(result, stack) ==
    [assignments |-> [set |-> TRUE, items |-> result.assignments],
     students |-> [set |-> TRUE, items |-> result.students],
     screen_stack |-> push_screen(stack, ScreenOf("AssignmentsScreen", None, None))]

\* StartupScreen.return_assignments handles one Worker.StateChanged: on
\* SUCCESS the screen is dismissed with the worker's result, which calls the
\* callback; any other state is passed over.
return_assignments ==
    /\ app = "running"
    /\ messages # <<>>
    /\ messages' = Tail(messages)
    /\ IF Head(messages) = "SUCCESS"
       THEN LET after == callback(worker_result, pop_screen(screen_stack))
            IN  /\ app_assignments' = after.assignments
                /\ app_students' = after.students
                /\ screen_stack' = after.screen_stack
                /\ received' = Append(received, worker_result)
       ELSE UNCHANGED <<app_assignments, app_students, screen_stack, received>>
    /\ UNCHANGED <<app, worker_state, worker_result, executed>>
    /\ UNCHANGED cliVars

\* Assignments.on_list_view_selected: an item of the assignments list is
\* selected.
Assignments_on_list_view_selected(item) ==
    /\ app = "running"
    /\ TopScreen.screen = "AssignmentsScreen"
    /\ item \in Range(app_assignments.items)
    /\ screen_stack' = push_screen(screen_stack, ScreenOf("StudentsScreen", item, None))
    /\ UNCHANGED <<app, app_assignments, app_students, worker_state, worker_result,
                   messages, received, executed>>
    /\ UNCHANGED cliVars

\* Students.on_list_view_selected
Students_on_list_view_selected(item) ==
    /\ app = "running"
    /\ TopScreen.screen = "StudentsScreen"
    /\ item \in Range(app_students.items)
    /\ screen_stack' = push_screen(screen_stack,
                                   ScreenOf("TasksScreen", TopScreen.assignment, item))
    /\ UNCHANGED <<app, app_assignments, app_students, worker_state, worker_result,
                   messages, received, executed>>
    /\ UNCHANGED cliVars

\* StudentsScreen.action_go_back: key b or the back button.
StudentsScreen_action_go_back ==
    /\ app = "running"
    /\ TopScreen.screen = "StudentsScreen"
    /\ screen_stack' = pop_screen(screen_stack)
    /\ UNCHANGED <<app, app_assignments, app_students, worker_state, worker_result,
                   messages, received, executed>>
    /\ UNCHANGED cliVars

\* TasksScreen.action_go_back
TasksScreen_action_go_back ==
    /\ app = "running"
    /\ TopScreen.screen = "TasksScreen"
    /\ screen_stack' = pop_screen(screen_stack)
    /\ UNCHANGED <<app, app_assignments, app_students, worker_state, worker_result,
                   messages, received, executed>>
    /\ UNCHANGED cliVars

\* Tasks.execute_task: the selected task is executed for the screen's
\* assignment and student.
execute_task(task) ==
    /\ app = "running"
    /\ TopScreen.screen = "TasksScreen"
    /\ executed' = [task |-> task, assignment |-> TopScreen.assignment,
                    student |-> TopScreen.student]
    /\ UNCHANGED <<app, screen_stack, app_assignments, app_students, worker_state,
                   worker_result, messages, received>>
    /\ UNCHANGED cliVars

\* Key q, bound by the app to quit. The modal start-up screen keeps the
\* app's bindings from the keys.
action_quit ==
    /\ app = "running"
    /\ TopScreen.screen # "StartupScreen"
    /\ app' = "exited"
    /\ UNCHANGED <<screen_stack, app_assignments, app_students, worker_state,
                   worker_result, messages, received, executed>>
    /\ UNCHANGED cliVars

\* The front end starts in a grading home on which no command has run.
InitTui ==
    /\ submissions = ArchiveNames \cup {NotesTxt}
    /\ codeDirExists = FALSE
    /\ entries = <<>>
    /\ condaEnvs = {BaseEnv}
    /\ installed = {}
    /\ cwd = GradingHome
    /\ NoCommand
    /\ InitTuiVars

NextTui ==
    \/ on_mount
    \/ StartupScreen_on_mount
    \/ WorkerRunning
    \/ WorkerSuccess
    \/ WorkerError
    \/ return_assignments
    \/ \E item \in {"hw1", "hw2"} : Assignments_on_list_view_selected(item)
    \/ \E item \in {"ann", "ben"} : Students_on_list_view_selected(item)
    \/ StudentsScreen_action_go_back
    \/ TasksScreen_action_go_back
    \/ \E task \in TaskNames : execute_task(task)
    \/ action_quit

SpecTui == InitTui /\ [][NextTui]_vars

\* The app's message loop runs the handlers of what is pending, the worker's
\* thread gets to run, and a canvas call ends, with a result or an
\* exception. What the grader does is under no fairness.
SpecTuiFair ==
    /\ SpecTui
    /\ WF_vars(on_mount)
    /\ WF_vars(StartupScreen_on_mount)
    /\ WF_vars(WorkerRunning)
    /\ WF_vars(WorkerSuccess \/ WorkerError)
    /\ WF_vars(return_assignments)

\* ------------------------------------------------------- properties

\* The calls of a log made for an environment name.
CallsFor(log, env) == {k \in 1..Len(log) : log[k].env = env}

\* C1. Roster-wide create is fail-fast: a failed conda create is the last
\* call of the batch, so no call is made for any student later in roster
\* order, and every student earlier in roster order has been processed (the
\* environment is there; with --force it was created anew).
C1_CreateFailFast ==
    (cmd = "create" /\ status = "ok") =>
      LET students == get_students(entries)
          environments == get_all_environments(condaEnvs)
      IN  \A k \in 1..Len(calls) : ~calls[k].ok =>
            /\ k = Len(calls)
            /\ \A i, j \in 1..Len(students) :
                 make_env_name(students[j]) = calls[k].env =>
                   /\ i < j => make_env_name(students[i]) \in environments
                   /\ (i < j /\ force) =>
                        \E m \in CallsFor(calls, make_env_name(students[i])) : calls[m].ok
                   /\ i > j => CallsFor(calls, make_env_name(students[i])) = {}

\* C1: a roster of three, the first created, the second failed, the third
\* neither called for nor there.
C1_Witness ==
    /\ cmd = "create"
    /\ get_students(entries) = <<Al, B, Bo>>
    /\ calls = <<Call("create", make_env_name(Al), TRUE),
                 Call("create", make_env_name(B), FALSE)>>
    /\ CondaEnvPath(make_env_name(Bo)) \notin condaEnvs

\* C2. Roster-wide remove and install continue on error: whichever calls
\* fail, remove calls conda for every student of the roster whose
\* environment exists, and install for every such student with a manifest.
C2_Step ==
    LET environments == get_all_environments(condaEnvs)
    IN  /\ (cmd' = "remove" /\ status' = "ok") =>
             \A s \in StudentDirs(entries) :
               (make_env_name(s) \in environments)
                 <=> (\E k \in CallsFor(calls', make_env_name(s)) : calls'[k].op = "remove")
        /\ (cmd' = "install" /\ status' = "ok") =>
             \A s \in StudentDirs(entries) :
               (make_env_name(s) \in environments /\ Manifests(entries, s) # {})
                 <=> (\E k \in CallsFor(calls', make_env_name(s)) : calls'[k].op = "install")

C2_ContinueOnError == [][C2_Step]_vars

\* C2: a remove over a roster of three whose second call failed and whose
\* third was made all the same.
C2_Witness ==
    /\ cmd = "remove"
    /\ get_students(entries) = <<Al, B, Bo>>
    /\ calls = <<Call("remove", make_env_name(Al), TRUE),
                 Call("remove", make_env_name(B), FALSE),
                 Call("remove", make_env_name(Bo), TRUE)>>

\* The same for install: the second student's poetry install failed and the
\* third student's ran.
C2_WitnessInstall ==
    /\ cmd = "install"
    /\ get_students(entries) = <<Al, B, Bo>>
    /\ calls = <<Call("install", make_env_name(Al), TRUE),
                 Call("import", make_env_name(Al), TRUE),
                 Call("install", make_env_name(B), FALSE),
                 Call("install", make_env_name(Bo), TRUE),
                 Call("import", make_env_name(Bo), TRUE)>>

\* C3. Create is idempotent: when create without --force follows create
\* without --force, the second makes no call for any student whose
\* environment is there after the first, so a student whose environment the
\* first created gets exactly one call over the two.
C3_Step ==
    (/\ cmd = "create" /\ ~force /\ status = "ok"
     /\ cmd' = "create" /\ ~force' /\ status' = "ok") =>
      \A s \in StudentDirs(entries) :
        LET env_name == make_env_name(s)
        IN  (\/ CondaEnvPath(env_name) \in condaEnvs
             \/ \E k \in CallsFor(calls, env_name) : calls[k].ok) =>
              /\ CallsFor(calls', env_name) = {}
              /\ Cardinality(CallsFor(calls, env_name)) <= 1

C3_CreateIdempotent == [][C3_Step]_vars

\* C3: a create without --force that made no call, over a roster of three
\* whose environments are all there.
C3_Witness ==
    /\ cmd = "create" /\ ~force /\ status = "ok"
    /\ calls = <<>>
    /\ Len(get_students(entries)) = 3
    /\ \A s \in StudentDirs(entries) : CondaEnvPath(make_env_name(s)) \in condaEnvs

\* C4. Unpack is idempotent: an unpack run leaves every student directory
\* that is already there as it is, manual edits included, and reports no
\* such student as processed; and a run that follows a run that ended
\* without error changes nothing, processes nothing and ends without error.
C4_Step ==
    (cmd' = "unpack" /\ status' # "Abort") =>
      /\ \A s \in StudentDirs(entries) :
           /\ s \in DOMAIN entries'
           /\ entries'[s] = entries[s]
           /\ s \notin Range(out')
      /\ (cmd = "unpack" /\ status = "ok") =>
           (entries' = entries /\ out' = <<>> /\ status' = "ok")

C4_UnpackIdempotent == [][C4_Step]_vars

\* C4: an unpack run that ended without error and processed nothing, over a
\* student directory extracted earlier and edited since.
C4_Witness ==
    /\ cmd = "unpack" /\ status = "ok" /\ out = <<>>
    /\ \E s \in StudentDirs(entries) :
         /\ entries[s].extracted
         /\ entries[s].edits > 0
         /\ entries[s].src \in submissions

\* Whether every archive of the submissions directory with a recognized
\* name has its student's directory.
AllRecognizedUnpacked ==
    \A f \in GlobZip(submissions) :
      RE_STUDENT_NAME(f) # NoMatch => IsDir(entries, RE_STUDENT_NAME(f))

\* C5. During unpack an archive whose name does not match the pattern is
\* skipped and does not fail the batch: unless an extraction itself fails,
\* the run ends without error and every archive with a recognized name is
\* processed.
C5_UnrecognizedSkipped ==
    (cmd = "unpack" /\ status \notin {"Abort", "BadZipFile", "FileExistsError"}) =>
      (status = "ok" /\ AllRecognizedUnpacked)

\* The student whose directory the working directory lies in.
CurrentStudent == cwd[Len(CodeDir) + 1]

\* Whether the working directory lies beneath the directory of a student of
\* the roster.
InSession ==
    /\ IsRelativeTo(cwd, CodeDir)
    /\ Len(cwd) > Len(CodeDir)
    /\ IsDir(entries, CurrentStudent)

\* Whether every student of the roster has a manifest beneath their
\* directory, as the layout of the code directory has it.
EveryStudentHasManifest ==
    \A s \in StudentDirs(entries) : Manifests(entries, s) # {}

\* C6. Navigation is cyclic: next goes from the student at (1-based) index i
\* of the roster to the one at (i mod N) + 1, with that student's directory
\* and environment name; from a student's directory, in a code directory
\* where every student has a manifest, it does not fail; and so the shell,
\* evaluating start and then N times next, visits the roster in order, each
\* student once, and is back at the first.
C6_CyclicNavigation ==
    LET students == get_students(entries)
        n == Len(students)
    IN  /\ tour # <<>> =>
             /\ n > 0
             /\ Len(tour) <= n + 1
             /\ \A k \in 1..Len(tour) : tour[k] = students[((k - 1) % n) + 1]
        /\ (cmd = "next" /\ status = "ok") =>
             \E i \in 1..n :
               /\ students[i] = CurrentStudent
               /\ IsRelativeTo(out[1].arg, CodeDir \o <<students[(i % n) + 1]>>)
               /\ out[2].arg = make_env_name(students[(i % n) + 1])
        /\ (cmd = "next" /\ ConfigFound(cwd) /\ InSession /\ EveryStudentHasManifest) =>
             status = "ok"

\* C6: the shell has gone round a roster of three: start, then next three
\* times, and is at the first student again.
C6_Witness ==
    /\ Len(get_students(entries)) = 3
    /\ Len(tour) = 4
    /\ tour[4] = tour[1]
    /\ IsRelativeTo(cwd, CodeDir \o <<tour[1]>>)

\* C7. next fails and prints no directive whenever the working directory is
\* not beneath the code directory or the student recovered from it is not
\* in the roster: with ValueError (of relative_to, or of list.index), with
\* IndexError when the working directory is the code directory itself, and
\* with the abort of the command group when the working directory is not
\* even in the grading home.
C7_NextOutsideSession ==
    (cmd = "next" /\ ~InSession) =>
      /\ out = <<>>
      /\ status = IF ~ConfigFound(cwd) THEN "Abort"
                  ELSE IF cwd = CodeDir THEN "IndexError"
                  ELSE "ValueError"

\* C7: next has failed with ValueError and printed nothing, in the directory
\* of a student that is no longer in a roster that still has students.
C7_Witness ==
    /\ cmd = "next" /\ status = "ValueError" /\ out = <<>>
    /\ IsRelativeTo(cwd, CodeDir)
    /\ Len(cwd) > Len(CodeDir)
    /\ CurrentStudent \notin Range(get_students(entries))
    /\ get_students(entries) # <<>>

\* C8. start prints the directory and the environment name of the first
\* student in sort order, both of that one student; it does so for every
\* roster whose first student has a manifest.
C8_StartFirstStudent ==
    LET dirs == {n \in DOMAIN entries : entries[n].kind = "dir"}
    IN  /\ (cmd = "start" /\ status = "ok") =>
             \E s \in dirs :
               /\ \A t \in dirs : s = t \/ StrLess(s, t)
               /\ Len(out) = 2
               /\ out[1].verb = "cd"
               /\ IsRelativeTo(out[1].arg, CodeDir \o <<s>>)
               /\ out[2].verb = "conda activate"
               /\ out[2].arg = EnvPrefix \o s
        /\ (/\ cmd = "start" /\ ConfigFound(cwd) /\ dirs # {}
            /\ \A s \in dirs : (\A t \in dirs : s = t \/ StrLess(s, t)) => Manifests(entries, s) # {})
             => status = "ok"

\* C8: start over the roster [al, bo] has printed al's directory and env_al.
C8_Witness ==
    /\ cmd = "start" /\ status = "ok"
    /\ get_students(entries) = <<Al, Bo>>
    /\ out = Directives(CodeDir \o <<Al>>, <<"e", "n", "v", "_", "a", "l">>)

\* C9. The environment name is an injective function of the student: two
\* different students of the roster never have the same environment name,
\* and every conda call is for the environment of exactly one student.
C9_NamingInjective ==
    /\ \A s1, s2 \in StudentDirs(entries) :
         make_env_name(s1) = make_env_name(s2) => s1 = s2
    /\ \A k \in 1..Len(calls) :
         Cardinality({s \in StudentDirs(entries) : make_env_name(s) = calls[k].env}) = 1

\* C9: create has made the environments of b and bo, two students with the
\* same initial, under two names.
C9_Witness ==
    /\ cmd = "create"
    /\ {B, Bo} \subseteq StudentDirs(entries)
    /\ \E i, j \in 1..Len(calls) :
         /\ calls[i].env = <<"e", "n", "v", "_", "b">> /\ calls[i].ok
         /\ calls[j].env = <<"e", "n", "v", "_", "b", "o">> /\ calls[j].ok
    /\ {CondaEnvPath(make_env_name(B)), CondaEnvPath(make_env_name(Bo))} \subseteq condaEnvs

\* The three students in ascending order of their names.
Ascending == <<Al, B, Bo>>

\* C10. The roster is deterministic: it holds exactly the names of the
\* subdirectories of the code directory, each once, in ascending order; and
\* listing the environments twice in a row, which reads the roster twice
\* with nothing changed in between, prints the same.
C10_Roster ==
    LET r == get_students(entries)
        dirs == {n \in DOMAIN entries : entries[n].kind = "dir"}
    IN  /\ Range(r) = dirs
        /\ Len(r) = Cardinality(dirs)
        /\ \A i, j \in 1..Len(r) : i < j => StrLess(r[i], r[j])
        /\ r = SelectSeq(Ascending, LAMBDA s : s \in dirs)

C10_ListStep ==
    (cmd = "list" /\ status = "ok" /\ cmd' = "list" /\ status' = "ok") => out' = out

C10_RosterDeterministic == []C10_Roster /\ [][C10_ListStep]_vars

\* C10: list has printed the environments of a roster of three in ascending
\* order, from a code directory that also holds a plain file.
C10_Witness ==
    /\ cmd = "list" /\ status = "ok"
    /\ Notes \in DOMAIN entries
    /\ get_students(entries) = <<Al, B, Bo>>
    /\ out = <<make_env_name(Al), make_env_name(B), make_env_name(Bo)>>

\* The calls of a log of one kind made for an environment name.
OpCallsFor(log, op, env) == {k \in CallsFor(log, env) : log[k].op = op}

\* C11, as claimed. Install is a no-op on an environment that is already
\* Installed: no install or import call is made for it and it stays
\* Installed.
C11_Step ==
    (cmd' = "install" /\ status' = "ok") =>
      \A s \in StudentDirs(entries) :
        CondaEnvPath(make_env_name(s)) \in installed =>
          /\ CallsFor(calls', make_env_name(s)) = {}
          /\ CondaEnvPath(make_env_name(s)) \in installed'

C11_InstallNoOp == [][C11_Step]_vars

\* C11, amended. Install on an environment that is already Installed is
\* safe but no no-op: the poetry install call is made again, and the import
\* call with it when the install exits with 0; the environment stays there
\* and stays Installed.
C11_AgainStep ==
    (cmd' = "install" /\ status' = "ok") =>
      \A s \in StudentDirs(entries) :
        LET env_name == make_env_name(s)
        IN  CondaEnvPath(env_name) \in installed =>
              /\ Cardinality(OpCallsFor(calls', "install", env_name)) = 1
              /\ (\E k \in OpCallsFor(calls', "install", env_name) : calls'[k].ok)
                   <=> Cardinality(OpCallsFor(calls', "import", env_name)) = 1
              /\ CondaEnvPath(env_name) \in condaEnvs'
              /\ CondaEnvPath(env_name) \in installed'

C11_InstallAgain == [][C11_AgainStep]_vars

\* C11: an install run whose poetry install failed for an environment that
\* an earlier run had installed.
C11_Witness ==
    /\ cmd = "install" /\ status = "ok"
    /\ \E s \in StudentDirs(entries) :
         /\ CondaEnvPath(make_env_name(s)) \in installed
         /\ \E k \in OpCallsFor(calls, "install", make_env_name(s)) : ~calls[k].ok

\* A name that follows the naming scheme: the prefix and a student name.
HasEnvPrefix(name) ==
    /\ Len(name) > Len(EnvPrefix)
    /\ SubSeq(name, 1, Len(EnvPrefix)) = EnvPrefix

\* The names of the environments in conda's envs directory.
NamedEnvs == {p[Len(p)] : p \in {q \in condaEnvs : Len(q) > 1 /\ q[Len(q) - 1] = Envs}}

\* C13, as claimed. env list prints a name exactly when an environment of
\* that name exists and the name has the managed prefix.
C13_ListByPrefix ==
    (cmd = "list" /\ status = "ok") =>
      Range(out) = {name \in NamedEnvs : HasEnvPrefix(name)}

\* C13, amended. env list prints a name exactly when it is the environment
\* name of a student of the roster and an environment of that name exists in
\* conda's envs directory; no other environment is printed.
C13_ListByRoster ==
    (cmd = "list" /\ status = "ok") =>
      /\ Range(out) = {make_env_name(s) : s \in StudentDirs(entries)} \cap NamedEnvs
      /\ \A i, j \in 1..Len(out) : out[i] = out[j] => i = j

\* C13: a listing that prints a student's environment while conda holds
\* another environment with the managed prefix whose student is not in the
\* roster.
C13_Witness ==
    /\ cmd = "list" /\ status = "ok"
    /\ out # <<>>
    /\ LeftEnv \in condaEnvs
    /\ Bo \notin StudentDirs(entries)

\* The error line install prints for a student without pyproject.toml.
NotFoundLine(student) == [error |-> "pyproject.toml not found", student |-> student]

\* C14. env install makes no conda call for a student whose environment does
\* not exist; for a student whose environment exists but under whose
\* directory no pyproject.toml is found it prints the error, makes no conda
\* call, and goes on to the students after that one.
C14_Step ==
    (cmd' = "install" /\ status' = "ok") =>
      \A s \in StudentDirs(entries) :
        LET env_name == make_env_name(s)
        IN  /\ env_name \notin NamedEnvs =>
                 /\ CallsFor(calls', env_name) = {}
                 /\ NotFoundLine(s) \notin Range(out')
            /\ (env_name \in NamedEnvs /\ Manifests(entries, s) = {}) =>
                 /\ NotFoundLine(s) \in Range(out')
                 /\ CallsFor(calls', env_name) = {}
                 /\ \A t \in StudentDirs(entries) :
                      (/\ StrLess(s, t)
                       /\ make_env_name(t) \in NamedEnvs
                       /\ Manifests(entries, t) # {})
                      => OpCallsFor(calls', "install", make_env_name(t)) # {}

C14_InstallSkips == [][C14_Step]_vars

\* C14: an install run that found no pyproject.toml for a student with an
\* environment, installed for a student after that one, and passed over a
\* student without environment.
C14_Witness ==
    /\ cmd = "install" /\ status = "ok"
    /\ \E s, t, u \in StudentDirs(entries) :
         /\ NotFoundLine(s) \in Range(out)
         /\ make_env_name(s) \in NamedEnvs
         /\ CallsFor(calls, make_env_name(s)) = {}
         /\ StrLess(s, t)
         /\ OpCallsFor(calls, "install", make_env_name(t)) # {}
         /\ make_env_name(u) \notin NamedEnvs
         /\ CallsFor(calls, make_env_name(u)) = {}

\* C15. env remove makes no conda call for a student without environment
\* and one remove call for a student with one; when every call exits with
\* 0, no student of the roster has an environment afterwards, created or
\* installed as it may have been.
C15_Step ==
    (cmd' = "remove" /\ status' = "ok") =>
      /\ \A s \in StudentDirs(entries) :
           LET env_name == make_env_name(s)
           IN  /\ env_name \notin NamedEnvs => CallsFor(calls', env_name) = {}
               /\ env_name \in NamedEnvs =>
                    /\ Cardinality(CallsFor(calls', env_name)) = 1
                    /\ \A k \in CallsFor(calls', env_name) : calls'[k].op = "remove"
      /\ (\A k \in 1..Len(calls') : calls'[k].ok) =>
           \A s \in StudentDirs(entries) :
             /\ CondaEnvPath(make_env_name(s)) \notin condaEnvs'
             /\ CondaEnvPath(make_env_name(s)) \notin installed'

C15_RemoveAll == [][C15_Step]_vars

\* C15: a remove run that removed the environments of two students, each
\* call exiting with 0, and made no call for a third student.
C15_Witness ==
    /\ cmd = "remove" /\ status = "ok"
    /\ Len(calls) = 2
    /\ \A k \in 1..Len(calls) : calls[k].ok
    /\ \E s \in StudentDirs(entries) : CallsFor(calls, make_env_name(s)) = {}
    /\ \A s \in StudentDirs(entries) : CondaEnvPath(make_env_name(s)) \notin condaEnvs

\* C16. shell start and shell next change neither the environments, nor
\* the code directory, nor the roster, nor the working directory, and call
\* no external program; all they do is print two directives, a cd to a
\* project directory beneath a student's directory and a conda activate of
\* that student's environment name, or nothing when they fail.
C16_Step ==
    cmd' \in {"start", "next"} =>
      /\ UNCHANGED <<submissions, codeDirExists, entries, condaEnvs, installed, cwd>>
      /\ get_students(entries') = get_students(entries)
      /\ calls' = <<>>
      /\ IF status' = "ok"
         THEN \E student \in StudentDirs(entries) :
                \E project_path \in find_pyproject_toml(entries, student) :
                  out' = <<[verb |-> "cd", arg |-> project_path],
                           [verb |-> "conda activate", arg |-> make_env_name(student)]>>
         ELSE out' = <<>>

C16_OnlyDirectives == [][C16_Step]_vars

\* C16: shell next has printed the directives for another student's project
\* and the working directory is still in the current student's directory.
C16_Witness ==
    /\ cmd = "next" /\ status = "ok"
    /\ Len(out) = 2
    /\ IsRelativeTo(cwd, CodeDir) /\ Len(cwd) > Len(CodeDir)
    /\ out[1].arg[Len(CodeDir) + 1] # cwd[Len(CodeDir) + 1]
    /\ out[2].arg # make_env_name(cwd[Len(CodeDir) + 1])

\* The students a batch reached: those with no failed call for a student
\* before them in roster order.
Reached(log, roster) ==
    {s \in roster :
       ~\E t \in roster :
          /\ StrLess(t, s)
          /\ \E k \in CallsFor(log, make_env_name(t)) : ~log[k].ok}

\* C17. In env create, for every student the batch reached before a failed
\* call stopped it, conda create is called if and only if --force is given
\* or no environment of the student's name existed when the batch started;
\* with --force the call is made for an environment that exists already,
\* which is then a fresh one.
C17_Step ==
    (cmd' = "create" /\ status' = "ok") =>
      \A s \in Reached(calls', StudentDirs(entries)) :
        LET env_name == make_env_name(s)
        IN  /\ Cardinality(CallsFor(calls', env_name)) = 1
                 <=> (force' \/ env_name \notin NamedEnvs)
            /\ CallsFor(calls', env_name) = {}
                 <=> ~(force' \/ env_name \notin NamedEnvs)
            /\ \A k \in CallsFor(calls', env_name) :
                 /\ calls'[k].op = "create"
                 /\ calls'[k].ok =>
                      /\ CondaEnvPath(env_name) \in condaEnvs'
                      /\ CondaEnvPath(env_name) \notin installed'

C17_CreateIffForceOrAbsent == [][C17_Step]_vars

\* C17: a create --force run whose call for a student failed, which leaves
\* the environment the student had before the batch: the call was made for
\* an environment that existed.
C17_Witness ==
    /\ cmd = "create" /\ status = "ok" /\ force
    /\ \E s \in StudentDirs(entries) :
         /\ CondaEnvPath(make_env_name(s)) \in condaEnvs
         /\ \E k \in CallsFor(calls, make_env_name(s)) : ~calls[k].ok
         /\ \E t \in StudentDirs(entries) :
              /\ StrLess(t, s)
              /\ \E k \in CallsFor(calls, make_env_name(t)) : calls[k].ok

\* The error line install prints for a student when a conda call failed.
FailedLine(phase, student) == [error |-> phase, student |-> student]

\* C18. env install runs two phases per student, in this order: the import
\* call comes right after a poetry install call for the same environment
\* that exited with 0; after a failed poetry install no import is made for
\* that student; the failure of either call is printed, and every student
\* with environment and pyproject.toml gets the poetry install call whatever
\* failed before.
C18_Step ==
    (cmd' = "install" /\ status' = "ok") =>
      /\ \A k \in 1..Len(calls') :
           calls'[k].op = "import" =>
             /\ k > 1
             /\ calls'[k - 1] = Call("install", calls'[k].env, TRUE)
      /\ \A s \in StudentDirs(entries) :
           LET env_name == make_env_name(s)
               installs == OpCallsFor(calls', "install", env_name)
               imports == OpCallsFor(calls', "import", env_name)
           IN  /\ (env_name \in NamedEnvs /\ Manifests(entries, s) # {})
                    => Cardinality(installs) = 1
               /\ Cardinality(imports) <= 1
               /\ (\E k \in installs : ~calls'[k].ok) => imports = {}
               /\ (\E k \in installs : ~calls'[k].ok)
                    <=> FailedLine("installing environment", s) \in Range(out')
               /\ (\E k \in imports : ~calls'[k].ok)
                    <=> FailedLine("importing environment", s) \in Range(out')

C18_InstallThenImport == [][C18_Step]_vars

\* C18: an install run whose poetry install failed for one student, whose
\* import failed for a later one, and which installed and imported for a
\* student after both.
C18_Witness ==
    /\ cmd = "install" /\ status = "ok"
    /\ \E s, t, u \in StudentDirs(entries) :
         /\ StrLess(s, t) /\ StrLess(t, u)
         /\ calls = <<Call("install", make_env_name(s), FALSE),
                      Call("install", make_env_name(t), TRUE),
                      Call("import", make_env_name(t), FALSE),
                      Call("install", make_env_name(u), TRUE),
                      Call("import", make_env_name(u), TRUE)>>
         /\ out = <<FailedLine("installing environment", s),
                    FailedLine("importing environment", t)>>

\* C19. unpack recovers from a run that broke off between the mkdir of a
\* student's directory and the end of the extraction: after a run that ends
\* without error, every student directory holds its extracted submission.
C19_UnpackRecovers ==
    (cmd = "unpack" /\ status = "ok") =>
      \A s \in StudentDirs(entries) : entries[s].extracted

\* The classes of the screens of the stack, the top one last.
ScreenClasses == [i \in 1..Len(screen_stack) |-> screen_stack[i].screen]

\* C12. The worker that fetches assignments and students reports exactly
\* once, whether it ends with a result or with an error: the callback is
\* never called twice, and in every run it is eventually called once, the
\* start-up screen is gone and the app runs on.
C12_WorkerReportsOnce ==
    /\ [](Len(received) <= 1)
    /\ <>(/\ Len(received) = 1
          /\ "StartupScreen" \notin Range(ScreenClasses)
          /\ app \in {"running", "exited"})

\* The screens pushed after the start-up: a prefix of the drill-down.
DrillDown == <<"AssignmentsScreen", "StudentsScreen", "TasksScreen">>

C20_Inv ==
    /\ \/ ScreenClasses \in {<<"_default">>, <<"_default", "StartupScreen">>}
       \/ \E n \in 1..3 : ScreenClasses = <<"_default">> \o SubSeq(DrillDown, 1, n)
    /\ (Range(ScreenClasses) \cap Range(DrillDown) # {}) =>
         /\ app_assignments.set /\ app_students.set
         /\ Len(received) = 1
         /\ app_assignments.items = received[1].assignments
         /\ app_students.items = received[1].students

C20_Step ==
    /\ (Len(screen_stack') > Len(screen_stack) /\ TopScreen.screen \in Range(DrillDown)) =>
         \E item \in Range(app_assignments.items) \cup Range(app_students.items) :
           \/ /\ TopScreen.screen = "AssignmentsScreen"
              /\ item \in Range(app_assignments.items)
              /\ screen_stack' = Append(screen_stack, ScreenOf("StudentsScreen", item, None))
           \/ /\ TopScreen.screen = "StudentsScreen"
              /\ item \in Range(app_students.items)
              /\ screen_stack' = Append(screen_stack,
                                        ScreenOf("TasksScreen", TopScreen.assignment, item))
    /\ Len(screen_stack') < Len(screen_stack) =>
         /\ TopScreen.screen \in {"StudentsScreen", "TasksScreen"}
         /\ screen_stack' = SubSeq(screen_stack, 1, Len(screen_stack) - 1)
    /\ Len(screen_stack') = Len(screen_stack) =>
         (screen_stack' = screen_stack \/ TopScreen.screen = "StartupScreen")

\* C20. The assignments screen is shown only after the worker's result is
\* stored: whenever the assignments, students or tasks screen is on the
\* stack, app.assignments and app.students are set, to what the worker
\* returned; the stack over the default screen is the start-up screen alone
\* or a prefix of assignments, students, tasks, which grows by one screen
\* when an item of the top list is selected and shrinks by one on go back.
C20_ScreenStack == []C20_Inv /\ [][C20_Step]_vars

\* C20: the tasks screen of the second assignment and the second student is
\* on top, reached by two selections.
C20_Witness ==
    /\ app = "running"
    /\ ScreenClasses = <<"_default">> \o DrillDown
    /\ TopScreen = ScreenOf("TasksScreen", "hw2", "ben")
    /\ app_assignments = [set |-> TRUE, items |-> <<"hw1", "hw2">>]

====
